---------------------------- MODULE Spec2Model ----------------------------
(***************************************************************************)
(* The adaptive multiplication quiz of src/index.tsx as a state machine.   *)
(*                                                                         *)
(* State: the React state of App (gameState, difficulty, robuxScore) and   *)
(* of GameScreen (currentQuestion, the streaks, difficultyLevel, ...),     *)
(* the pending setTimeout callback with the generateQuestion closure it    *)
(* captured, and the passive effects React still has to flush.             *)
(*                                                                         *)
(* Math.random() is sampled on a grid of points of [0, 1), and every       *)
(* expression of a draw is computed from the point as the code computes it *)
(* from the double.  The generator alone is checked on the whole grid; a   *)
(* session samples a few draws of it.                                      *)
(***************************************************************************)
EXTENDS Integers, Sequences, FiniteSets, TLC

VARIABLES
    gameState,            \* App: 'selecting_difficulty' | 'playing' | 'won'
    difficulty,           \* App: Difficulty
    language,             \* App: Language
    robuxScore,           \* App: number
    currentQuestion,      \* GameScreen: Question | null
    correctStreak,        \* GameScreen
    wrongStreak,          \* GameScreen
    correctAnswersCount,  \* GameScreen
    feedback,             \* GameScreen: {incorrectSelection?}
    isAnswered,           \* GameScreen
    difficultyLevel,      \* GameScreen
    showIntroMessage,     \* GameScreen
    typedAnswer,          \* GameScreen: the text of the number input
    lastQuestion,         \* GameScreen: {num1, num2} | null
    timer,                \* the pending setTimeout of the mounted GameScreen
    orphanTimers,         \* pending setTimeouts of unmounted GameScreens
    pendingEffects,       \* effects of the last commit not yet flushed
    speechSupported,      \* the browser: 'speechSynthesis' in window
    ignored,              \* a submission returned early since the Question came
    answers,              \* answers evaluated since Init (bounds the run)
    speech,               \* window.speechSynthesis and the speakText awaiting voices
    audio                 \* src/unnamed/part_000: audioRequestRef and its fetches,
                          \* or the sources and the pending calls of playAudio

\* The state of the quiz
quizVars == <<gameState, difficulty, robuxScore, currentQuestion, correctStreak,
              wrongStreak, correctAnswersCount, feedback, isAnswered,
              difficultyLevel, showIntroMessage, typedAnswer, lastQuestion,
              timer, orphanTimers, pendingEffects, answers, language,
              speechSupported, ignored>>

vars == <<quizVars, speech, audio>>

screenVars == <<currentQuestion, correctStreak, wrongStreak,
                correctAnswersCount, feedback, isAnswered, difficultyLevel,
                showIntroMessage, typedAnswer, lastQuestion, ignored>>

---------------------------------------------------------------------------
(* Bounds of the model *)

\* parts the grid of Math.random() divides [0, 1) into
Grid == 10
\* draws of the grid a session samples for the operands
RandRes == 2
\* draws of the grid sampled for the options when the generator is checked alone
GenOptRes == 2
\* answers evaluated in one run
MaxAnswers == 4
\* answers evaluated in a run that starts late in a session
LateAnswers == 2
\* calls of playAudio in a run of the audio system alone
MaxCalls == 4
\* draws of the grid taken for each coin and each Math.ceil of the while loop
\* when its candidates are enumerated on all draws of the offset
OptDraws == 3

---------------------------------------------------------------------------
(* Constants of the program *)

WinScore == 1000
OverrideScore == 800
NoOnesScore == 100
RobuxBonusScore == 500
IntroCorrectAnswers == 30
TypedModeScore == 900
CorrectReward == 5
NearWinScore == 950

Difficulties == {"Easy", "Moderate", "Hard"}

Languages == {"English", "Hebrew", "Russian"}

NoQuestion == [num1 |-> 0, num2 |-> 0, answer |-> 0, options |-> {}]
NoPair == [num1 |-> 0, num2 |-> 0]
NoTimer == [set |-> FALSE]

Max(a, b) == IF a >= b THEN a ELSE b

\* draws of the grid a session samples for the options: half as many
OptRes == Max(1, RandRes \div 2)


---------------------------------------------------------------------------
(* Math.random() on a grid: draw k is the midpoint (2k + 1) / (2 Grid) of  *)
(* the k-th of Grid equal parts of [0, 1)                                  *)

Rnd == 0..(Grid - 1)

\* The draws in the order a session samples them: the middle, the two ends,
\* then the points between
SampleOrder == <<5, 0, 9, 2, 7, 4, 1, 8, 3, 6>>

\* The first n draws of the order
Samples(n) == { SampleOrder[i] : i \in 1..n }

\* Math.floor(Math.random() * n)
FloorTimes(k, n) == ((2 * k + 1) * n) \div (2 * Grid)

\* Math.ceil(Math.random() * n)
CeilTimes(k, n) == ((2 * k + 1) * n + 2 * Grid - 1) \div (2 * Grid)

\* Math.random() < 0.5
LtHalf(k) == 2 * k + 1 < Grid

\* Math.random() > 0.5
GtHalf(k) == 2 * k + 1 > Grid

---------------------------------------------------------------------------
(* generateQuestion: the operand pair *)

\* The values generateQuestion's closure captured at the render it is from.
Closure(d, lang, score, count, streak, level, last) ==
    [difficulty |-> d, language |-> lang, robuxScore |-> score,
     correctAnswersCount |-> count, correctStreak |-> streak,
     difficultyLevel |-> level, lastQuestion |-> last]

Pair(a, b) == [num1 |-> a, num2 |-> b]

\* [num1, num2] = [num2, num1] when the coin says so
SwapIf(flip, p) == IF flip THEN Pair(p.num2, p.num1) ELSE p

\* The cascade without its first branch
ruleOfNoOverride(c) ==
    IF c.difficulty = "Hard" THEN "hard"
    ELSE IF c.difficulty = "Moderate" THEN "moderate"
    ELSE IF c.difficulty = "Easy" /\ c.correctAnswersCount < IntroCorrectAnswers
         THEN "intro"
    ELSE "fallback"

\* The cascade with a branch on the language before the others
ruleOfByLanguage(c) ==
    IF c.language = "Hebrew" THEN "hard"
    ELSE IF c.robuxScore >= OverrideScore THEN "override"
    ELSE IF c.difficulty = "Hard" THEN "hard"
    ELSE IF c.difficulty = "Moderate" THEN "moderate"
    ELSE IF c.difficulty = "Easy" /\ c.correctAnswersCount < IntroCorrectAnswers
         THEN "intro"
    ELSE "fallback"


\* The cascade with the introductory branch up to 30 correct answers, not 29
ruleOfIntroThirty(c) ==
    IF c.robuxScore >= OverrideScore THEN "override"
    ELSE IF c.difficulty = "Hard" THEN "hard"
    ELSE IF c.difficulty = "Moderate" THEN "moderate"
    ELSE IF c.difficulty = "Easy" /\ c.correctAnswersCount <= IntroCorrectAnswers
         THEN "intro"
    ELSE "fallback"


\* The cascade without its branch for Moderate
ruleOfNoModerate(c) ==
    IF c.robuxScore >= OverrideScore THEN "override"
    ELSE IF c.difficulty = "Hard" THEN "hard"
    ELSE IF c.difficulty = "Easy" /\ c.correctAnswersCount < IntroCorrectAnswers
         THEN "intro"
    ELSE "fallback"

\* The branch of the cascade the closure's values select.
ruleOf(c) ==
    IF c.robuxScore >= OverrideScore THEN "override"
    ELSE IF c.difficulty = "Hard" THEN "hard"
    ELSE IF c.difficulty = "Moderate" THEN "moderate"
    ELSE IF c.difficulty = "Easy" /\ c.correctAnswersCount < IntroCorrectAnswers
         THEN "intro"
    ELSE "fallback"

\* Priority 1: one of 6..9 and one of 6..12, swapped on a coin
overridePairs(D) ==
    { SwapIf(LtHalf(s), Pair(6 + FloorTimes(a, 4), FloorTimes(b, 7) + 6)) :
        a \in D, b \in D, s \in D }


\* Hard with one factor for four: 6 x 6 and nothing else
hardPairsSingle(D) ==
    { Pair(6 + FloorTimes(a, 1), 6 + FloorTimes(b, 1)) :
        a \in D, b \in D }

\* Hard with five factors for four: both of 6..10
hardPairsWide(D) ==
    { Pair(6 + FloorTimes(a, 5), 6 + FloorTimes(b, 5)) :
        a \in D, b \in D }

\* Hard: both of 6..9
hardPairs(D) ==
    { Pair(6 + FloorTimes(a, 4), 6 + FloorTimes(b, 4)) :
        a \in D, b \in D }

\* Moderate with 12 for 10: one of 4..7 and one of 1..12
moderatePairsWide(D) ==
    { SwapIf(LtHalf(s), Pair(4 + FloorTimes(a, 4), FloorTimes(b, 12) + 1)) :
        a \in D, b \in D, s \in D }

\* Moderate: one of 4..7 and one of 1..10, swapped on a coin
moderatePairs(D) ==
    { SwapIf(LtHalf(s), Pair(4 + FloorTimes(a, 4), FloorTimes(b, 10) + 1)) :
        a \in D, b \in D, s \in D }

\* Easy below 30 correct answers: 2 or 3 and one of 1..10, order on a coin
introPairs(D) ==
    { LET factor1 == IF LtHalf(a) THEN 2 ELSE 3
          factor2 == FloorTimes(b, 10) + 1
      IN  IF GtHalf(s) THEN Pair(factor1, factor2) ELSE Pair(factor2, factor1) :
        a \in D, b \in D, s \in D }

baseMaxNum(d) == IF d = "Easy" THEN 4 ELSE IF d = "Moderate" THEN 7 ELSE 10

effectiveLevel(c) ==
    c.difficultyLevel + (c.correctStreak \div 3)
        + (IF c.robuxScore >= RobuxBonusScore THEN 2 ELSE 0)


\* Fallback without the second draw of num2 for (1,1)
fallbackPairsNoRedraw(c, D) ==
    LET maxNum1 == baseMaxNum(c.difficulty) + effectiveLevel(c)
        maxNum2 == baseMaxNum(c.difficulty) + Max(0, effectiveLevel(c) - 2)
    IN  { Pair(FloorTimes(a, maxNum1) + 1, FloorTimes(b, maxNum2) + 1) :
            a \in D, b \in D }

\* Fallback: num1 of 1..maxNum1, num2 of 1..maxNum2, (1,1) redrawn
fallbackPairs(c, D) ==
    LET maxNum1 == baseMaxNum(c.difficulty) + effectiveLevel(c)
        maxNum2 == baseMaxNum(c.difficulty) + Max(0, effectiveLevel(c) - 2)
    IN  { LET n1 == FloorTimes(a, maxNum1) + 1
              n2 == FloorTimes(b, maxNum2) + 1
          IN  IF n1 = 1 /\ n2 = 1 THEN Pair(n1, FloorTimes(r, 9) + 2)
                                  ELSE Pair(n1, n2) :
            a \in D, b \in D, r \in D }

\* The pairs the cascade can draw in one pass of the do-while.
rulePairs(c, D) ==
    CASE ruleOf(c) = "override" -> overridePairs(D)
      [] ruleOf(c) = "hard"     -> hardPairs(D)
      [] ruleOf(c) = "moderate" -> moderatePairs(D)
      [] ruleOf(c) = "intro"    -> introPairs(D)
      [] OTHER                  -> fallbackPairs(c, D)

\* NEW RULE: an operand 1 is replaced by 2, 3 or 4 if score >= 100
noOnes(c, p, D) ==
    IF c.robuxScore >= NoOnesScore
    THEN { Pair(IF p.num1 = 1 THEN FloorTimes(a, 3) + 2 ELSE p.num1,
                IF p.num2 = 1 THEN FloorTimes(b, 3) + 2 ELSE p.num2) :
             a \in D, b \in D }
    ELSE {p}

\* isRepeated without its second disjunct: the swapped pair passes
isRepeatedSameOrder(p, last) ==
    /\ last # NoPair
    /\ p.num1 = last.num1 /\ p.num2 = last.num2

isRepeated(p, last) ==
    /\ last # NoPair
    /\ \/ (p.num1 = last.num1 /\ p.num2 = last.num2)
       \/ (p.num1 = last.num2 /\ p.num2 = last.num1)

\* The pairs the do-while can leave with: a pass that repeats is drawn again.
operandPairs(c, D) ==
    { p \in UNION { noOnes(c, q, D) : q \in rulePairs(c, D) } :
        ~isRepeated(p, c.lastQuestion) }

---------------------------------------------------------------------------
(* generateQuestion: the options *)

\* The pass without `wrongAnswer <= 0` in its first test
wrongAnswerOfNoSignTest(num1, num2, size, o, m, g, h) ==
    LET answer == num1 * num2
        wrongAnswerOffset == FloorTimes(o, 10) - 5
        wrongAnswerMultiplier == IF GtHalf(m) THEN num1 ELSE num2
        first == answer + wrongAnswerOffset * wrongAnswerMultiplier
        second == answer + (size * (IF GtHalf(g) THEN 1 ELSE -1)
                                 * (CeilTimes(h, 3) + 1))
    IN  IF first = answer
        THEN IF second <= 0 \/ second = answer THEN answer + size + 1 ELSE second
        ELSE first


\* The pass without its last resort `answer + options.size + 1`
wrongAnswerOfNoLastResort(num1, num2, size, o, m, g, h) ==
    LET answer == num1 * num2
        wrongAnswerOffset == FloorTimes(o, 10) - 5
        wrongAnswerMultiplier == IF GtHalf(m) THEN num1 ELSE num2
        first == answer + wrongAnswerOffset * wrongAnswerMultiplier
        second == answer + (size * (IF GtHalf(g) THEN 1 ELSE -1)
                                 * (CeilTimes(h, 3) + 1))
    IN  IF first = answer \/ first <= 0 THEN second ELSE first

\* One pass of the while loop with `size` options in the set: the value it adds.
wrongAnswerOf(num1, num2, size, o, m, g, h) ==
    LET answer == num1 * num2
        wrongAnswerOffset == FloorTimes(o, 10) - 5
        wrongAnswerMultiplier == IF GtHalf(m) THEN num1 ELSE num2
        first == answer + wrongAnswerOffset * wrongAnswerMultiplier
        second == answer + (size * (IF GtHalf(g) THEN 1 ELSE -1)
                                 * (CeilTimes(h, 3) + 1))
    IN  IF first = answer \/ first <= 0
        THEN IF second <= 0 \/ second = answer THEN answer + size + 1 ELSE second
        ELSE first

\* The values a pass can add while the set has `size` members.
wrongAnswers(num1, num2, size, D) ==
    { wrongAnswerOf(num1, num2, size, o, m, g, h) :
        o \in D, m \in D, g \in D, h \in D }

\* The sets the while loop can leave with: it runs until the set has 4
\* members, and a pass that draws a member of the set adds nothing.
optionSets(num1, num2, D) ==
    LET answer == num1 * num2
        w1 == wrongAnswers(num1, num2, 1, D)
        w2 == wrongAnswers(num1, num2, 2, D)
        w3 == wrongAnswers(num1, num2, 3, D)
    IN  UNION { UNION { { {answer, x, y, z} : z \in w3 \ {answer, x, y} } :
                        y \in w2 \ {answer, x} } :
                x \in w1 \ {answer} }

\* questionText: the operands around the word of the language (the Hebrew
\* and the Russian word are written in Latin letters here)
questionText(lang, num1, num2) ==
    CASE lang = "Hebrew"  -> <<num1, "kaful", num2>>
      [] lang = "Russian" -> <<num1, "umnozhit na", num2>>
      [] OTHER            -> <<num1, "times", num2>>

Question(p, opts) ==
    [num1 |-> p.num1, num2 |-> p.num2, answer |-> p.num1 * p.num2, options |-> opts]

\* The Questions a call of generateQuestion with closure c can set, the
\* operands drawn from the draws D and the options from the draws E.
questions(c, D, E) ==
    UNION { { Question(p, opts) : opts \in optionSets(p.num1, p.num2, E) } :
            p \in operandPairs(c, D) }

---------------------------------------------------------------------------
(* Scoring *)

\* getPenalty with > for >= in its bands
getPenaltyAbove(score) ==
    IF score > 930 THEN 8
    ELSE IF score > 800 THEN 5
    ELSE IF score > 700 THEN 4
    ELSE 2

getPenalty(score) ==
    IF score >= 930 THEN 8
    ELSE IF score >= 800 THEN 5
    ELSE IF score >= 700 THEN 4
    ELSE 2

\* The progression state an answer updates.
Progress(score, cStreak, wStreak, count, level) ==
    [robuxScore |-> score, correctStreak |-> cStreak, wrongStreak |-> wStreak,
     correctAnswersCount |-> count, difficultyLevel |-> level]

\* The branch of a correct answer without setWrongStreak(0)
correctAnswerKeepsWrongStreak(p) ==
    [p EXCEPT !.robuxScore = p.robuxScore + CorrectReward,
              !.correctStreak = p.correctStreak + 1,
              !.correctAnswersCount = p.correctAnswersCount + 1]

\* The branch of a correct answer without setCorrectAnswersCount
correctAnswerNoCount(p) ==
    [p EXCEPT !.robuxScore = p.robuxScore + CorrectReward,
              !.correctStreak = p.correctStreak + 1,
              !.wrongStreak = 0]

\* handleAnswer / handleTypedAnswerSubmit, the branch of a correct answer
correctAnswer(p) ==
    [p EXCEPT !.robuxScore = p.robuxScore + CorrectReward,
              !.correctStreak = p.correctStreak + 1,
              !.correctAnswersCount = p.correctAnswersCount + 1,
              !.wrongStreak = 0]

\* The branch of a wrong answer without Math.max(0, ...)
wrongAnswerUnclamped(p) ==
    [p EXCEPT !.robuxScore = p.robuxScore - getPenalty(p.robuxScore),
              !.correctStreak = 0,
              !.wrongStreak = p.wrongStreak + 1]


\* The branch of a wrong answer with setCorrectAnswersCount(0) added
wrongAnswerResetsCount(p) ==
    [p EXCEPT !.robuxScore = Max(0, p.robuxScore - getPenalty(p.robuxScore)),
              !.correctStreak = 0,
              !.correctAnswersCount = 0,
              !.wrongStreak = p.wrongStreak + 1]

\* handleAnswer / handleTypedAnswerSubmit, the branch of a wrong answer:
\* the penalty is read from the score of the render the handler is from
wrongAnswer(p) ==
    [p EXCEPT !.robuxScore = Max(0, p.robuxScore - getPenalty(p.robuxScore)),
              !.correctStreak = 0,
              !.wrongStreak = p.wrongStreak + 1]


\* The effect on [robuxScore, setGameState] without its test
winEffectNever(score) == FALSE

\* The win test with > for >=
winEffectAbove(score) == score > WinScore

\* The effect on [robuxScore, setGameState]: whether it sets 'won'
winEffect(score) == score >= WinScore

\* The effect on [wrongStreak] without Math.max(0, ...)
wrongStreakEffectNoFloor(wStreak, level) ==
    IF wStreak > 0 /\ wStreak % 3 = 0 THEN level - 1 ELSE level

\* The effect on [wrongStreak]
wrongStreakEffect(wStreak, level) ==
    IF wStreak > 0 /\ wStreak % 3 = 0 THEN Max(0, level - 1) ELSE level

\* The effect on [difficulty]
initialLevel(d) ==
    CASE d = "Easy" -> 0
      [] d = "Moderate" -> 2
      [] d = "Hard" -> 5

---------------------------------------------------------------------------
(* The typed answer: a text, a sequence of characters *)

Digits == <<"0", "1", "2", "3", "4", "5", "6", "7", "8", "9">>

IsDigit(ch) == \E i \in 1..10 : Digits[i] = ch

DigitValue(ch) == (CHOOSE i \in 1..10 : Digits[i] = ch) - 1

NaN == [isNaN |-> TRUE, value |-> 0]

Number(v) == [isNaN |-> FALSE, value |-> v]

RECURSIVE SkipSpaces(_)
SkipSpaces(s) ==
    IF s # <<>> /\ Head(s) = " " THEN SkipSpaces(Tail(s)) ELSE s

\* The digits s starts with: how many, and their value
RECURSIVE ReadDigits(_, _, _)
ReadDigits(s, n, acc) ==
    IF s # <<>> /\ IsDigit(Head(s))
    THEN ReadDigits(Tail(s), n + 1, 10 * acc + DigitValue(Head(s)))
    ELSE [n |-> n, value |-> acc]

\* parseInt(text, 10): leading blanks, a sign, then the digits up to the
\* first other character; NaN when there is no digit
parseInt(s) ==
    LET t == SkipSpaces(s)
        signed == t # <<>> /\ Head(t) \in {"+", "-"}
        d == ReadDigits(IF signed THEN Tail(t) ELSE t, 0, 0)
    IN  IF d.n = 0 THEN NaN
        ELSE IF signed /\ Head(t) = "-" THEN Number(0 - d.value)
        ELSE Number(d.value)

\* !text.trim()
isBlank(s) == \A i \in 1..Len(s) : s[i] = " "

\* === that takes NaN for equal to any answer
strictEqualsNaN(userAnswer, q) ==
    q # NoQuestion /\ (userAnswer.isNaN \/ userAnswer.value = q.answer)

\* userAnswer === currentQuestion?.answer
strictEquals(userAnswer, q) ==
    q # NoQuestion /\ ~userAnswer.isNaN /\ userAnswer.value = q.answer

\* The text of a number as the player types it
RECURSIVE DecimalOf(_)
DecimalOf(n) ==
    IF n < 10 THEN <<Digits[n + 1]>>
    ELSE DecimalOf(n \div 10) \o <<Digits[(n % 10) + 1]>>

\* The texts the handler is given for Question q: the product, a wrong
\* number, the product with a fraction, and a text that is no number
TypedInputs(q) ==
    { DecimalOf(q.answer), DecimalOf(q.answer + 1),
      DecimalOf(q.answer) \o <<".", "5">>, <<"x">> }

---------------------------------------------------------------------------
(* The GameScreen component *)

\* The state a GameScreen mounts with (and the one kept while none is mounted)
ScreenInit ==
    /\ currentQuestion = NoQuestion
    /\ correctStreak = 0
    /\ wrongStreak = 0
    /\ correctAnswersCount = 0
    /\ feedback = {}
    /\ isAnswered = FALSE
    /\ difficultyLevel = 0
    /\ showIntroMessage = TRUE
    /\ typedAnswer = <<>>
    /\ lastQuestion = NoPair
    /\ ignored = FALSE

\* The useState initial values again: a GameScreen mounts, or the one there
\* leaves the tree
FreshScreen ==
    /\ currentQuestion' = NoQuestion
    /\ correctStreak' = 0
    /\ wrongStreak' = 0
    /\ correctAnswersCount' = 0
    /\ feedback' = {}
    /\ isAnswered' = FALSE
    /\ difficultyLevel' = 0
    /\ showIntroMessage' = TRUE
    /\ typedAnswer' = <<>>
    /\ lastQuestion' = NoPair
    /\ ignored' = FALSE

\* The GameScreen leaves the tree: its state is gone, its timeout is not
Unmount ==
    /\ FreshScreen
    /\ timer' = NoTimer
    /\ orphanTimers' = orphanTimers + (IF timer.set THEN 1 ELSE 0)

\* The closure of the generateQuestion of the current render
CurrentClosure ==
    Closure(difficulty, language, robuxScore, correctAnswersCount,
            correctStreak, difficultyLevel, lastQuestion)

CurrentProgress ==
    Progress(robuxScore, correctStreak, wrongStreak, correctAnswersCount,
             difficultyLevel)

\* The setters of an answer, and the effects whose dependencies they change
SetProgress(p) ==
    /\ robuxScore' = p.robuxScore
    /\ correctStreak' = p.correctStreak
    /\ wrongStreak' = p.wrongStreak
    /\ correctAnswersCount' = p.correctAnswersCount
    /\ pendingEffects' = (IF p.robuxScore # robuxScore THEN {"win"} ELSE {})
                           \cup (IF p.wrongStreak # wrongStreak THEN {"wrongStreak"} ELSE {})


\* generateQuestion without setFeedback({})
generateQuestionKeepsFeedback(c, D, E) ==
    \E q \in questions(c, D, E) :
        /\ lastQuestion' = Pair(q.num1, q.num2)
        /\ currentQuestion' = q
        /\ isAnswered' = FALSE
        /\ feedback' = feedback
        /\ ignored' = FALSE


\* generateQuestion without setIsAnswered(false)
generateQuestionStaysAnswered(c, D, E) ==
    \E q \in questions(c, D, E) :
        /\ lastQuestion' = Pair(q.num1, q.num2)
        /\ currentQuestion' = q
        /\ isAnswered' = isAnswered
        /\ feedback' = {}
        /\ ignored' = FALSE

\* generateQuestion called with the closure c
generateQuestion(c, D, E) ==
    \E q \in questions(c, D, E) :
        /\ lastQuestion' = Pair(q.num1, q.num2)
        /\ currentQuestion' = q
        /\ isAnswered' = FALSE
        /\ feedback' = {}
        /\ ignored' = FALSE

\* A question is on the screen
Asking ==
    /\ gameState = "playing"
    /\ pendingEffects = {}
    /\ ~showIntroMessage
    /\ currentQuestion # NoQuestion

\* The branches with generateQuestion called at once for setTimeout
evaluateThenGenerates(userAnswer, clearTyped) ==
    /\ IF strictEquals(userAnswer, currentQuestion)
       THEN SetProgress(correctAnswer(CurrentProgress))
       ELSE SetProgress(wrongAnswer(CurrentProgress))
    /\ generateQuestion(CurrentClosure, Samples(RandRes), Samples(OptRes))
    /\ timer' = NoTimer
    /\ answers' = answers + 1
    /\ UNCHANGED <<gameState, difficulty, difficultyLevel, showIntroMessage,
                   typedAnswer, orphanTimers, language, speechSupported>>

\* The branches of handleAnswer and handleTypedAnswerSubmit
evaluate(userAnswer, clearTyped) ==
    /\ isAnswered' = TRUE
    /\ IF strictEquals(userAnswer, currentQuestion)
       THEN /\ SetProgress(correctAnswer(CurrentProgress))
            /\ feedback' = {}
       ELSE /\ SetProgress(wrongAnswer(CurrentProgress))
            /\ feedback' = {userAnswer}
    /\ timer' = [set |-> TRUE, closure |-> CurrentClosure, clearTyped |-> clearTyped]
    /\ answers' = answers + 1
    /\ UNCHANGED <<gameState, difficulty, currentQuestion, difficultyLevel,
                   showIntroMessage, typedAnswer, lastQuestion, orphanTimers,
                   language, speechSupported, ignored>>

---------------------------------------------------------------------------
(* Narration with the Web Speech API: speakText and getVoices.  The state   *)
(* is whether getVoices() returns voices yet, the utterance of the          *)
(* speakText that awaits onvoiceschanged, and the utterances handed to      *)
(* speak() and not cancelled since (one that has ended is not told apart).  *)

COMPLIMENTS ==
    <<"Good!", "Excellent!", "Great job!", "You are doing well!",
      "You are amazing!">>

HIGH_SCORE_COMPLIMENTS ==
    <<"You are almost there!", "Keep up the good work!",
      "You are going to win soon!", "You are so smart!">>

\* What speakText is called with: the operands and the word of a question
\* text or the phrase of a compliment, and the language.  stale records
\* that generateQuestion has been called since.
Utterance(kind, phrase, num1, num2, lang) ==
    [kind |-> kind, phrase |-> phrase, num1 |-> num1, num2 |-> num2,
     lang |-> lang, stale |-> FALSE]

NoUtterance == Utterance("none", "", 0, 0, "")

QuestionUtterance(lang, q) ==
    LET text == questionText(lang, q.num1, q.num2)
    IN  Utterance("question", text[2], text[1], text[3], lang)

\* The text of the Question a timeout generates for a GameScreen that is
\* gone: the Question is set nowhere, and its operands are not kept here
GhostUtterance == Utterance("question", "", 0, 0, "")

\* `robuxScore >= 950 ? HIGH_SCORE_COMPLIMENTS : COMPLIMENTS`
complimentArray(score) ==
    IF score >= NearWinScore THEN HIGH_SCORE_COMPLIMENTS ELSE COMPLIMENTS

\* complimentArray[Math.floor(Math.random() * complimentArray.length)],
\* spoken in English
ComplimentUtterance(score, k) ==
    LET array == complimentArray(score)
    IN  Utterance("compliment", array[FloorTimes(k, Len(array)) + 1], 0, 0,
                  "English")

\* No voices yet, nothing awaited, nothing spoken
NoSpeech == [voicesLoaded |-> FALSE, waiting |-> NoUtterance, spoken |-> {}]

\* window.speechSynthesis.cancel()
cancel(s) == [s EXCEPT !.spoken = {}]

\* speakText: nothing without speechSynthesis; else cancel(), then speak()
\* once getVoices() resolves: in the same task when there are voices, else
\* when onvoiceschanged runs, a handler the next getVoices() replaces
speakText(s, u) ==
    IF ~speechSupported THEN s
    ELSE IF s.voicesLoaded THEN [s EXCEPT !.spoken = {u}]
    ELSE [s EXCEPT !.spoken = {}, !.waiting = u]

\* generateQuestion has been called: what was requested before is stale
Aged(s) ==
    [s EXCEPT !.spoken = { [u EXCEPT !.stale = TRUE] : u \in @ },
              !.waiting = IF @ = NoUtterance THEN @ ELSE [@ EXCEPT !.stale = TRUE]]

\* generateQuestion: speakText(questionText, language)
narrateQuestion(lang) ==
    speech' = speakText(Aged(speech), QuestionUtterance(lang, currentQuestion'))

\* generateQuestion of a GameScreen that is gone: speakText all the same
narrateGhost ==
    speech' = speakText(Aged(speech), GhostUtterance)

\* handleAnswer / handleTypedAnswerSubmit: cancel(), and speakText of a
\* compliment on a correct answer, the pool read from the score of the
\* render; nothing when the handler returns early or cancel() throws
speechOnAnswer(userAnswer, returnsEarly) ==
    IF returnsEarly \/ ~speechSupported THEN UNCHANGED speech
    ELSE IF strictEquals(userAnswer, currentQuestion)
    THEN \E k \in Samples(OptRes) :
             speech' = speakText(cancel(speech), ComplimentUtterance(robuxScore, k))
    ELSE speech' = cancel(speech)

\* The browser has loaded its voices: onvoiceschanged resolves the
\* getVoices() of the speakText that set it last, which calls speak()
voiceschanged ==
    /\ speechSupported
    /\ ~speech.voicesLoaded
    /\ pendingEffects = {}
    /\ speech' = [voicesLoaded |-> TRUE,
                  waiting |-> NoUtterance,
                  spoken |-> speech.spoken \cup ({speech.waiting} \ {NoUtterance})]
    /\ UNCHANGED <<quizVars, audio>>

---------------------------------------------------------------------------
(* The token-based audio of src/unnamed/part_000: audioRequestRef, the     *)
(* fetches of generateSpeech in flight, the last call of playAudio that    *)
(* awaits the resume of a suspended AudioContext (when the context         *)
(* resumes, the calls before it start their source and the next call stops *)
(* it at once), and the request whose audio is the current source (one     *)
(* that has ended is not told apart)                                       *)

\* A fetch: what it is for and the token at its issue.  generated and
\* answered record that generateQuestion was called, an answer evaluated,
\* since its issue.
Request(kind, requestId) ==
    [kind |-> kind, requestId |-> requestId,
     generated |-> FALSE, answered |-> FALSE]

NoRequest == Request("none", 0)

\* What generateSpeech resolves with: the audio, or null where the page
\* has no API key
AudioData == {"pcm", "null"}

\* audioData is what the fetches of this page resolve with
NoAudio ==
    [token |-> 0, inflight |-> {}, decoding |-> NoRequest,
     currentAudioSource |-> NoRequest, audioData |-> "null"]

\* generateQuestion has been called since the requests were issued
Regenerated(a) ==
    [a EXCEPT
       !.inflight = { [r EXCEPT !.generated = TRUE] : r \in @ },
       !.decoding = IF @ = NoRequest THEN @ ELSE [@ EXCEPT !.generated = TRUE],
       !.currentAudioSource = IF @ = NoRequest THEN @
                              ELSE [@ EXCEPT !.generated = TRUE]]

\* An answer has been evaluated since the requests were issued
Reanswered(a) ==
    [a EXCEPT
       !.inflight = { [r EXCEPT !.answered = TRUE] : r \in @ },
       !.decoding = IF @ = NoRequest THEN @ ELSE [@ EXCEPT !.answered = TRUE],
       !.currentAudioSource = IF @ = NoRequest THEN @
                              ELSE [@ EXCEPT !.answered = TRUE]]

\* stopAudio(): the current source, if any, is stopped
stopAudio(a) == [a EXCEPT !.currentAudioSource = NoRequest]

\* playAudio: stopAudio(), then `await ctx.resume()` if the context is
\* suspended (it is while an earlier call still awaits it), then
\* stopAudio() again and source.start(0).  The awaits of a running context
\* end within the task.
playAudio(a, r, suspended) ==
    IF suspended \/ a.decoding # NoRequest
    THEN [stopAudio(a) EXCEPT !.decoding = r]
    ELSE [a EXCEPT !.currentAudioSource = r]

\* The test of the question audio with the test of the compliment audio
questionAudioAcceptedRelaxed(token, r, audioData) ==
    token <= r.requestId + 1 /\ audioData # "null"

\* `audioRequestRef.current === requestId && audioData`
questionAudioAccepted(token, r, audioData) ==
    token = r.requestId /\ audioData # "null"

\* The test of the compliment audio with the test of the question audio
complimentAudioAcceptedStrict(token, r, audioData) ==
    token = r.requestId /\ audioData # "null"

\* `audioRequestRef.current <= requestId + 1 && audioData`
complimentAudioAccepted(token, r, audioData) ==
    token <= r.requestId + 1 /\ audioData # "null"

\* generateQuestion: ++audioRequestRef.current, getQuestionSpeech(...)
requestQuestionAudio ==
    audio' = [Regenerated(audio) EXCEPT
                !.token = @ + 1,
                !.inflight = @ \cup {Request("question", audio.token + 1)}]

\* handleAnswer / handleTypedAnswerSubmit: stopAudio(),
\* ++audioRequestRef.current, and getComplimentSpeech(...) on a correct
\* answer; nothing when the handler returns early
tokenOnAnswer(userAnswer, returnsEarly) ==
    IF returnsEarly THEN UNCHANGED audio
    ELSE audio' = [stopAudio(Reanswered(audio)) EXCEPT
                     !.token = @ + 1,
                     !.inflight = @ \cup (IF strictEquals(userAnswer, currentQuestion)
                                          THEN {Request("compliment", audio.token + 1)}
                                          ELSE {})]

\* getQuestionSpeech(...).then(...): playAudio if the token is the
\* request's, else nothing
questionAudioArrives(r) ==
    /\ r \in audio.inflight
    /\ r.kind = "question"
    /\ pendingEffects = {}
    /\ \E suspended \in BOOLEAN :
          LET a == [audio EXCEPT !.inflight = @ \ {r}]
          IN  audio' = IF questionAudioAccepted(audio.token, r, audio.audioData)
                       THEN playAudio(a, r, suspended)
                       ELSE a
    /\ UNCHANGED <<quizVars, speech>>

\* getComplimentSpeech(...).then(...): playAudio if the token is at most
\* one past the request's, else nothing
complimentAudioArrives(r) ==
    /\ r \in audio.inflight
    /\ r.kind = "compliment"
    /\ pendingEffects = {}
    /\ \E suspended \in BOOLEAN :
          LET a == [audio EXCEPT !.inflight = @ \ {r}]
          IN  audio' = IF complimentAudioAccepted(audio.token, r, audio.audioData)
                       THEN playAudio(a, r, suspended)
                       ELSE a
    /\ UNCHANGED <<quizVars, speech>>

\* The AudioContext resumes: the calls of playAudio that awaited it go on
\* in their order, each stopping the source of the one before
audioContextResumes ==
    /\ audio.decoding # NoRequest
    /\ pendingEffects = {}
    /\ audio' = [audio EXCEPT
                   !.decoding = NoRequest,
                   !.currentAudioSource = audio.decoding]
    /\ UNCHANGED <<quizVars, speech>>

---------------------------------------------------------------------------
(* The events *)

\* DifficultySelector: onSelectLanguage
setLanguage(l) ==
    /\ gameState = "selecting_difficulty"
    /\ pendingEffects = {}
    /\ l # language
    /\ language' = l
    /\ UNCHANGED <<gameState, difficulty, robuxScore, screenVars, timer,
                   orphanTimers, pendingEffects, speechSupported, answers>>

handleSelectDifficulty(d) ==
    /\ gameState = "selecting_difficulty"
    /\ pendingEffects = {}
    /\ difficulty' = d
    /\ gameState' = "playing"
    /\ FreshScreen
    /\ pendingEffects' = {"win", "difficulty", "wrongStreak"}
    /\ UNCHANGED <<robuxScore, timer, orphanTimers, answers, language,
                   speechSupported>>

\* React flushes the effects of the commit, in the order they are declared
flushEffects ==
    /\ pendingEffects # {}
    /\ pendingEffects' = {}
    /\ IF "win" \in pendingEffects /\ winEffect(robuxScore)
       THEN /\ gameState' = "won"
            /\ Unmount
            /\ UNCHANGED <<difficulty, robuxScore, answers, language, speechSupported>>
       ELSE /\ LET fromTier == "difficulty" \in pendingEffects
                   level == IF fromTier THEN initialLevel(difficulty) ELSE difficultyLevel
               IN  /\ correctAnswersCount' = IF fromTier THEN 0 ELSE correctAnswersCount
                   /\ correctStreak' = IF fromTier THEN 0 ELSE correctStreak
                   /\ wrongStreak' = IF fromTier THEN 0 ELSE wrongStreak
                   /\ difficultyLevel' = IF "wrongStreak" \in pendingEffects
                                         THEN wrongStreakEffect(wrongStreak, level)
                                         ELSE level
            /\ UNCHANGED <<gameState, difficulty, robuxScore, currentQuestion,
                           feedback, isAnswered, showIntroMessage, typedAnswer,
                           lastQuestion, timer, orphanTimers, answers, language,
                           speechSupported, ignored>>

handleStartGame(D, E) ==
    /\ gameState = "playing"
    /\ pendingEffects = {}
    /\ showIntroMessage
    /\ showIntroMessage' = FALSE
    /\ generateQuestion(CurrentClosure, D, E)
    /\ UNCHANGED <<gameState, difficulty, robuxScore, correctStreak, wrongStreak,
                   correctAnswersCount, difficultyLevel, typedAnswer, timer,
                   orphanTimers, pendingEffects, answers, language, speechSupported>>

\* A handler that never returns early
ignoresClickNever(answered) == FALSE

\* `if (isAnswered) return;`
ignoresClick(answered) == answered

\* `if (isAnswered || !typedAnswer.trim()) return;`
ignoresSubmit(answered, text) == answered \/ isBlank(text)

\* The handler returns before it sets anything
returnEarly ==
    /\ ignored' = TRUE
    /\ UNCHANGED <<gameState, difficulty, language, robuxScore, currentQuestion,
                   correctStreak, wrongStreak, correctAnswersCount, feedback,
                   isAnswered, difficultyLevel, showIntroMessage, typedAnswer,
                   lastQuestion, timer, orphanTimers, pendingEffects,
                   speechSupported, answers>>

\* window.speechSynthesis.cancel() where window has no speechSynthesis: a
\* TypeError ends the handler after setIsAnswered(true), before the answer
\* is compared and before setTimeout
cancelThrows ==
    /\ isAnswered' = TRUE
    /\ UNCHANGED <<gameState, difficulty, language, robuxScore, currentQuestion,
                   correctStreak, wrongStreak, correctAnswersCount, feedback,
                   difficultyLevel, showIntroMessage, typedAnswer, lastQuestion,
                   timer, orphanTimers, pendingEffects, speechSupported,
                   ignored, answers>>

handleAnswer(selectedOption) ==
    /\ Asking
    /\ robuxScore < TypedModeScore
    /\ IF ignoresClick(isAnswered) THEN returnEarly
       ELSE IF ~speechSupported THEN cancelThrows
       ELSE answers < MaxAnswers /\ evaluate(Number(selectedOption), FALSE)

setTypedAnswer(text) ==
    /\ Asking
    /\ robuxScore >= TypedModeScore
    /\ ~isAnswered
    /\ text # typedAnswer
    /\ typedAnswer' = text
    /\ UNCHANGED <<gameState, difficulty, robuxScore, currentQuestion,
                   correctStreak, wrongStreak, correctAnswersCount, feedback,
                   isAnswered, difficultyLevel, showIntroMessage, lastQuestion,
                   timer, orphanTimers, pendingEffects, answers, language,
                   speechSupported, ignored>>

handleTypedAnswerSubmit ==
    /\ Asking
    /\ robuxScore >= TypedModeScore
    /\ IF ignoresSubmit(isAnswered, typedAnswer) THEN returnEarly
       ELSE IF ~speechSupported THEN cancelThrows
       ELSE answers < MaxAnswers /\ evaluate(parseInt(typedAnswer), TRUE)

\* The timeout of 1250 ms: the generateQuestion the answering handler captured
timerFires(D, E) ==
    /\ timer.set
    /\ pendingEffects = {}
    /\ generateQuestion(timer.closure, D, E)
    /\ typedAnswer' = IF timer.clearTyped THEN <<>> ELSE typedAnswer
    /\ timer' = NoTimer
    /\ UNCHANGED <<gameState, difficulty, robuxScore, correctStreak, wrongStreak,
                   correctAnswersCount, difficultyLevel, showIntroMessage,
                   orphanTimers, pendingEffects, answers, language, speechSupported>>


\* A timeout of a GameScreen that is gone whose setIsAnswered(false) reaches
\* the GameScreen mounted now
orphanTimerFiresOnScreen ==
    /\ orphanTimers > 0
    /\ pendingEffects = {}
    /\ orphanTimers' = orphanTimers - 1
    /\ isAnswered' = FALSE
    /\ UNCHANGED <<gameState, difficulty, robuxScore, currentQuestion,
                   correctStreak, wrongStreak, correctAnswersCount, feedback,
                   difficultyLevel, showIntroMessage, typedAnswer, lastQuestion,
                   ignored, timer, pendingEffects, answers, language,
                   speechSupported>>

\* A timeout of a GameScreen that is gone: its setters do nothing
orphanTimerFires ==
    /\ orphanTimers > 0
    /\ pendingEffects = {}
    /\ orphanTimers' = orphanTimers - 1
    /\ UNCHANGED <<gameState, difficulty, robuxScore, screenVars, timer,
                   pendingEffects, answers, language, speechSupported>>

\* handleReset that sets 'playing' for 'selecting_difficulty'
handleResetToPlaying ==
    /\ pendingEffects = {}
    /\ gameState # "selecting_difficulty"
    /\ robuxScore' = 0
    /\ gameState' = "playing"
    /\ Unmount
    /\ UNCHANGED <<difficulty, pendingEffects, answers, language, speechSupported>>

\* handleReset without setRobuxScore(0)
handleResetKeepsScore ==
    /\ pendingEffects = {}
    /\ gameState # "selecting_difficulty"
    /\ gameState' = "selecting_difficulty"
    /\ Unmount
    /\ UNCHANGED <<difficulty, robuxScore, pendingEffects, answers, language,
                   speechSupported>>

handleReset ==
    /\ pendingEffects = {}
    /\ gameState # "selecting_difficulty"
    /\ robuxScore' = 0
    /\ gameState' = "selecting_difficulty"
    /\ Unmount
    /\ UNCHANGED <<difficulty, pendingEffects, answers, language, speechSupported>>

---------------------------------------------------------------------------
(* The session from the start of the program *)

\* The state App mounts with, in a browser with or without speechSynthesis
Start ==
    /\ gameState = "selecting_difficulty"
    /\ difficulty = "Easy"
    /\ language = "English"
    /\ speechSupported \in BOOLEAN
    /\ robuxScore = 0
    /\ ScreenInit
    /\ timer = NoTimer
    /\ orphanTimers = 0
    /\ pendingEffects = {}
    /\ \E loaded \in (IF speechSupported THEN BOOLEAN ELSE {FALSE}) :
           speech = [NoSpeech EXCEPT !.voicesLoaded = loaded]
    /\ audio = NoAudio

Init == Start /\ answers = 0

Session(D, E) ==
    \/ \E l \in Languages : setLanguage(l) /\ UNCHANGED <<speech, audio>>
    \/ \E d \in Difficulties :
          handleSelectDifficulty(d) /\ UNCHANGED <<speech, audio>>
    \/ flushEffects /\ UNCHANGED <<speech, audio>>
    \/ /\ handleStartGame(D, E)
       /\ narrateQuestion(language)
       /\ UNCHANGED audio
    \/ \E o \in currentQuestion.options :
          /\ handleAnswer(o)
          /\ speechOnAnswer(Number(o), ignoresClick(isAnswered))
          /\ UNCHANGED audio
    \/ \E text \in TypedInputs(currentQuestion) \cup {<<>>} :
          setTypedAnswer(text) /\ UNCHANGED <<speech, audio>>
    \/ /\ handleTypedAnswerSubmit
       /\ speechOnAnswer(parseInt(typedAnswer),
                         ignoresSubmit(isAnswered, typedAnswer))
       /\ UNCHANGED audio
    \/ /\ timerFires(D, E)
       /\ narrateQuestion(timer.closure.language)
       /\ UNCHANGED audio
    \/ orphanTimerFires /\ narrateGhost /\ UNCHANGED audio
    \/ handleReset /\ UNCHANGED <<speech, audio>>
    \/ voiceschanged

Next == Session(Samples(RandRes), Samples(OptRes))

Spec == Init /\ [][Next]_vars

---------------------------------------------------------------------------
(* The session from a state deep in it: the state a script of answers      *)
(* leaves, computed with the operators the events use                      *)

\* An answer and the effects flushed after it
afterAnswer(p, isCorrect) ==
    LET q == IF isCorrect THEN correctAnswer(p) ELSE wrongAnswer(p)
    IN  [q EXCEPT !.difficultyLevel =
            IF q.wrongStreak # p.wrongStreak
            THEN wrongStreakEffect(q.wrongStreak, q.difficultyLevel)
            ELSE q.difficultyLevel]

\* Ten answers of one kind
afterTen(p, isCorrect) ==
    afterAnswer(afterAnswer(afterAnswer(afterAnswer(afterAnswer(
    afterAnswer(afterAnswer(afterAnswer(afterAnswer(afterAnswer(
        p, isCorrect), isCorrect), isCorrect), isCorrect), isCorrect),
        isCorrect), isCorrect), isCorrect), isCorrect), isCorrect)

\* n answers of one kind
\* (p is read before the next answers are applied to it)
RECURSIVE afterAnswers(_, _, _)
afterAnswers(p, isCorrect, n) ==
    IF n = 0 \/ p.robuxScore < 0 THEN p
    ELSE IF n >= 10 THEN afterAnswers(afterTen(p, isCorrect), isCorrect, n - 10)
    ELSE afterAnswers(afterAnswer(p, isCorrect), isCorrect, n - 1)

\* A script: c0 correct answers, then w wrong ones, then c correct ones
Script(c0, w, c) == <<c0, w, c>>

\* The progression of a GameScreen after its mount effects
mounted(d) == Progress(0, 0, 0, 0, initialLevel(d))

\* The progression after the script, and the one before its last answer
played(d, script) ==
    LET c0 == script[1]
        w == script[2]
        c == script[3]
        lastCorrect == c > 0 \/ w = 0
        p1 == afterAnswers(mounted(d), TRUE, IF w = 0 /\ c = 0 THEN c0 - 1 ELSE c0)
        p2 == afterAnswers(p1, FALSE, IF c = 0 /\ w > 0 THEN w - 1 ELSE w)
        p3 == afterAnswers(p2, TRUE, IF c > 0 THEN c - 1 ELSE 0)
    IN  [now |-> afterAnswer(p3, lastCorrect), before |-> p3]

\* The Question on the screen after the script: the timeout of the last
\* answer generated it, with the closure of the render before that answer.
\* Every Question of that closure's rule can be the one, the Question before
\* it being any other; this is one of them.
shownAfter(d, script) ==
    LET b == played(d, script).before
    IN  CHOOSE q \in questions(Closure(d, "English", b.robuxScore,
                                       b.correctAnswersCount, b.correctStreak,
                                       b.difficultyLevel, NoPair),
                               Samples(RandRes), Samples(OptRes)) : TRUE

\* The scripts a late session starts after: scores on both sides of every
\* threshold of the program, and wrong streaks one short of a multiple of 3
LateScripts ==
    { Script(1, 2, 0), Script(1, 5, 0), Script(19, 0, 0), Script(20, 0, 0),
      Script(29, 0, 0), Script(30, 0, 0), Script(99, 0, 0), Script(100, 0, 0),
      Script(139, 0, 0), Script(140, 0, 0), Script(2, 3, 159), Script(159, 0, 0),
      Script(160, 0, 0), Script(179, 0, 0), Script(180, 0, 0), Script(185, 0, 0),
      Script(186, 0, 0), Script(189, 0, 0), Script(190, 0, 0), Script(199, 0, 0),
      Script(2, 3, 199) }

\* A question is on the screen, awaiting its answer, after the script
Awaiting(d, script) ==
    LET p == played(d, script).now
        q == shownAfter(d, script)
    IN  /\ gameState = "playing"
        /\ difficulty = d
        /\ robuxScore = p.robuxScore
        /\ correctStreak = p.correctStreak
        /\ wrongStreak = p.wrongStreak
        /\ correctAnswersCount = p.correctAnswersCount
        /\ difficultyLevel = p.difficultyLevel
        /\ currentQuestion = q
        /\ lastQuestion = Pair(q.num1, q.num2)
        /\ feedback = {}
        /\ isAnswered = FALSE
        /\ showIntroMessage = FALSE
        /\ typedAnswer = <<>>
        /\ timer = NoTimer
        /\ orphanTimers = 0
        /\ pendingEffects = {}
        /\ language = "English"
        /\ speechSupported = TRUE
        /\ ignored = FALSE

\* The narration of the Question on the screen was handed to speak()
Narrated ==
    /\ speech = [voicesLoaded |-> TRUE,
                 waiting |-> NoUtterance,
                 spoken |-> {QuestionUtterance(language, currentQuestion)}]
    /\ audio = NoAudio

InitLate ==
    /\ \/ /\ \E d \in Difficulties : \E script \in LateScripts : Awaiting(d, script)
          /\ Narrated
       \/ Start
    /\ answers = MaxAnswers - LateAnswers

SpecLate == InitLate /\ [][Next]_vars

---------------------------------------------------------------------------
(* The generator alone: generateQuestion is about to be called, by START   *)
(* GAME of a fresh GameScreen or by the timeout of an answer, and draws on *)
(* the whole grid                                                          *)

\* A GameScreen mounted for tier d, its effects flushed, the intro showing
Fresh(d) ==
    /\ gameState = "playing"
    /\ difficulty = d
    /\ robuxScore = 0
    /\ currentQuestion = NoQuestion
    /\ correctStreak = 0
    /\ wrongStreak = 0
    /\ correctAnswersCount = 0
    /\ feedback = {}
    /\ isAnswered = FALSE
    /\ difficultyLevel = initialLevel(d)
    /\ showIntroMessage = TRUE
    /\ typedAnswer = <<>>
    /\ lastQuestion = NoPair
    /\ timer = NoTimer
    /\ orphanTimers = 0
    /\ pendingEffects = {}
    /\ language = "English"
    /\ speechSupported = TRUE
    /\ ignored = FALSE

\* The scripts the generator is called after
GenScripts ==
    { Script(1, 2, 0), Script(19, 0, 0), Script(20, 0, 0), Script(29, 0, 0),
      Script(30, 0, 0), Script(30, 26, 0), Script(100, 0, 0),
      Script(159, 0, 0), Script(160, 0, 0) }

\* The Question shown after the script has just been answered with its
\* product, the effects flushed, the timeout pending
Answered(d, script) ==
    LET p == played(d, script).now
        q == shownAfter(d, script)
        r == afterAnswer(p, TRUE)
    IN  /\ p.robuxScore < TypedModeScore
        /\ gameState = "playing"
        /\ difficulty = d
        /\ robuxScore = r.robuxScore
        /\ correctStreak = r.correctStreak
        /\ wrongStreak = r.wrongStreak
        /\ correctAnswersCount = r.correctAnswersCount
        /\ difficultyLevel = r.difficultyLevel
        /\ currentQuestion = q
        /\ lastQuestion = Pair(q.num1, q.num2)
        /\ feedback = {}
        /\ isAnswered = TRUE
        /\ showIntroMessage = FALSE
        /\ typedAnswer = <<>>
        /\ timer = [set |-> TRUE,
                    closure |-> Closure(d, "English", p.robuxScore,
                                        p.correctAnswersCount, p.correctStreak,
                                        p.difficultyLevel, Pair(q.num1, q.num2)),
                    clearTyped |-> FALSE]
        /\ orphanTimers = 0
        /\ pendingEffects = {}
        /\ language = "English"
        /\ speechSupported = TRUE
        /\ ignored = FALSE

InitGen ==
    /\ \E d \in Difficulties :
          \/ /\ Fresh(d)
             /\ speech = [NoSpeech EXCEPT !.voicesLoaded = TRUE]
          \/ \E script \in GenScripts :
                /\ Answered(d, script)
                /\ speech = [voicesLoaded |-> TRUE,
                             waiting |-> NoUtterance,
                             spoken |-> {ComplimentUtterance(
                                            timer.closure.robuxScore,
                                            SampleOrder[1])}]
    /\ audio = NoAudio
    /\ answers = 0

NextGen ==
    \/ /\ handleStartGame(Rnd, Samples(GenOptRes))
       /\ narrateQuestion(language)
       /\ UNCHANGED audio
    \/ /\ timerFires(Rnd, Samples(GenOptRes))
       /\ narrateQuestion(timer.closure.language)
       /\ UNCHANGED audio

SpecGen == InitGen /\ [][NextGen]_vars

---------------------------------------------------------------------------
(* The older variant of src/unnamed/part_000: the quiz with narration      *)
(* fetched as audio and guarded by the token audioRequestRef.  The intro   *)
(* leaves on a timeout there, and an effect generates the first Question.  *)

\* The script the typed answers of this variant are reached after
AudioScript == Script(185, 0, 0)

\* audioRequestRef.current after the script: one for each Question
\* generated and one for each answer
tokenAfter(script) == 2 * (script[1] + script[2] + script[3]) + 1

InitAudio ==
    /\ \E d \in Difficulties, audioData \in AudioData :
          \/ /\ Fresh(d)
             /\ audio = [NoAudio EXCEPT !.audioData = audioData]
          \/ /\ d = "Easy"
             /\ Awaiting(d, AudioScript)
             /\ audio = [NoAudio EXCEPT !.audioData = audioData,
                                        !.token = tokenAfter(AudioScript)]
    /\ speech = NoSpeech
    /\ answers = MaxAnswers - LateAnswers

NextAudio ==
    \/ /\ handleStartGame(Samples(RandRes), Samples(OptRes))
       /\ requestQuestionAudio
       /\ UNCHANGED speech
    \/ flushEffects /\ UNCHANGED <<speech, audio>>
    \/ \E o \in currentQuestion.options :
          /\ handleAnswer(o)
          /\ tokenOnAnswer(Number(o), ignoresClick(isAnswered))
          /\ UNCHANGED speech
    \/ \E text \in TypedInputs(currentQuestion) \cup {<<>>} :
          setTypedAnswer(text) /\ UNCHANGED <<speech, audio>>
    \/ /\ handleTypedAnswerSubmit
       /\ tokenOnAnswer(parseInt(typedAnswer),
                        ignoresSubmit(isAnswered, typedAnswer))
       /\ UNCHANGED speech
    \/ /\ timerFires(Samples(RandRes), Samples(OptRes))
       /\ requestQuestionAudio
       /\ UNCHANGED speech
    \/ \E r \in audio.inflight : questionAudioArrives(r)
    \/ \E r \in audio.inflight : complimentAudioArrives(r)
    \/ audioContextResumes

SpecAudio == InitAudio /\ [][NextAudio]_vars

---------------------------------------------------------------------------
(* The audio system of src/unnamed/part_000 alone, in the detail of its    *)
(* awaits: playAudio is an async function, and a call is suspended at      *)
(* `await ctx.resume()` while the AudioContext is suspended and at          *)
(* `await decodeAudioData(...)`; what follows the last await runs to the    *)
(* end without another task in between.  The quiz stands still.            *)

\* The module's state: no call made, no source created
NoPlayer ==
    [calls |-> 0, suspended |-> FALSE, resuming |-> {}, decoding |-> {},
     currentAudioSource |-> NoRequest, playing |-> {}]

\* stopAudio: the source currentAudioSource refers to is stopped
stopCurrentSource(a) ==
    [a EXCEPT !.playing = @ \ {a.currentAudioSource},
              !.currentAudioSource = NoRequest]

\* The end of playAudio without the stopAudio() after the await
startSourceNoDoubleCheck(a, r) ==
    [a EXCEPT !.currentAudioSource = r,
              !.playing = @ \cup {r},
              !.decoding = @ \ {r}]

\* The end of playAudio: stopAudio(), currentAudioSource = source,
\* source.start(0)
startSource(a, r) ==
    [stopCurrentSource(a) EXCEPT !.currentAudioSource = r,
                                 !.playing = @ \cup {r},
                                 !.decoding = @ \ {r}]

\* playAudio(audioData) up to its first await
playAudioCalled ==
    /\ audio.calls < MaxCalls
    /\ LET r == Request("question", audio.calls + 1)
           a == [stopCurrentSource(audio) EXCEPT !.calls = @ + 1]
       IN  audio' = IF a.suspended
                    THEN [a EXCEPT !.resuming = @ \cup {r}]
                    ELSE [a EXCEPT !.decoding = @ \cup {r}]
    /\ UNCHANGED <<quizVars, speech>>

\* The AudioContext leaves 'suspended'
contextResumed ==
    /\ audio.suspended
    /\ audio' = [audio EXCEPT !.suspended = FALSE]
    /\ UNCHANGED <<quizVars, speech>>

\* `await ctx.resume()` returns to the call r, which goes on to the next await
resumeReturns(r) ==
    /\ ~audio.suspended
    /\ r \in audio.resuming
    /\ audio' = [audio EXCEPT !.resuming = @ \ {r}, !.decoding = @ \cup {r}]
    /\ UNCHANGED <<quizVars, speech>>

\* `await decodeAudioData(...)` returns to the call r, which runs to its end
decodeReturns(r) ==
    /\ r \in audio.decoding
    /\ audio' = startSource(audio, r)
    /\ UNCHANGED <<quizVars, speech>>

\* stopAudio() of an answering handler
stopAudioCalled ==
    /\ audio.currentAudioSource # NoRequest
    /\ audio' = stopCurrentSource(audio)
    /\ UNCHANGED <<quizVars, speech>>

\* source.onended: the source r has played to its end
sourceEnded(r) ==
    /\ r \in audio.playing
    /\ audio' = [audio EXCEPT !.playing = @ \ {r},
                              !.currentAudioSource =
                                  IF @ = r THEN NoRequest ELSE @]
    /\ UNCHANGED <<quizVars, speech>>

InitPlayer ==
    /\ Fresh("Easy")
    /\ speech = NoSpeech
    /\ answers = 0
    /\ \E suspended \in BOOLEAN : audio = [NoPlayer EXCEPT !.suspended = suspended]

NextPlayer ==
    \/ playAudioCalled
    \/ contextResumed
    \/ \E r \in audio.resuming : resumeReturns(r)
    \/ \E r \in audio.decoding : decodeReturns(r)
    \/ stopAudioCalled
    \/ \E r \in audio.playing : sourceEnded(r)

SpecPlayer == InitPlayer /\ [][NextPlayer]_vars

---------------------------------------------------------------------------
(* The session of a player who gives the product every time, from the      *)
(* start of the program to the win, every timeout firing and every effect  *)
(* flushed in the end                                                      *)

\* Correct answers that take a session from 0 to the win
AnswersToWin == WinScore \div CorrectReward

\* The run is given the answers of one whole session
InitWin == Start /\ answers = MaxAnswers - AnswersToWin

\* The GameScreen's events with their narration
startGame ==
    /\ handleStartGame(Samples(RandRes), Samples(OptRes))
    /\ narrateQuestion(language)
    /\ UNCHANGED audio

\* The player clicks the product
clickAnswer ==
    /\ handleAnswer(currentQuestion.answer)
    /\ speechOnAnswer(Number(currentQuestion.answer), ignoresClick(isAnswered))
    /\ UNCHANGED audio

\* The player types the product
typeAnswer ==
    /\ setTypedAnswer(DecimalOf(currentQuestion.answer))
    /\ UNCHANGED <<speech, audio>>

submitAnswer ==
    /\ handleTypedAnswerSubmit
    /\ speechOnAnswer(parseInt(typedAnswer), ignoresSubmit(isAnswered, typedAnswer))
    /\ UNCHANGED audio

nextQuestion ==
    /\ timerFires(Samples(RandRes), Samples(OptRes))
    /\ narrateQuestion(timer.closure.language)
    /\ UNCHANGED audio

selectDifficulty == \E d \in Difficulties : handleSelectDifficulty(d)

NextWin ==
    \/ selectDifficulty /\ UNCHANGED <<speech, audio>>
    \/ flushEffects /\ UNCHANGED <<speech, audio>>
    \/ startGame
    \/ clickAnswer
    \/ typeAnswer
    \/ submitAnswer
    \/ nextQuestion
    \/ orphanTimerFires /\ narrateGhost /\ UNCHANGED audio
    \/ voiceschanged

SpecWin ==
    /\ InitWin
    /\ [][NextWin]_vars
    /\ WF_vars(selectDifficulty /\ UNCHANGED <<speech, audio>>)
    /\ WF_vars(flushEffects /\ UNCHANGED <<speech, audio>>)
    /\ WF_vars(startGame)
    /\ WF_vars(clickAnswer)
    /\ WF_vars(typeAnswer)
    /\ WF_vars(submitAnswer)
    /\ WF_vars(nextQuestion)

---------------------------------------------------------------------------
(* The session of a player who answers as they like and does not reset,    *)
(* every timeout firing and every effect flushed in the end                *)

NextPlay ==
    \/ selectDifficulty /\ UNCHANGED <<speech, audio>>
    \/ flushEffects /\ UNCHANGED <<speech, audio>>
    \/ startGame
    \/ \E o \in currentQuestion.options :
          /\ handleAnswer(o)
          /\ speechOnAnswer(Number(o), ignoresClick(isAnswered))
          /\ UNCHANGED audio
    \/ \E text \in TypedInputs(currentQuestion) \cup {<<>>} :
          setTypedAnswer(text) /\ UNCHANGED <<speech, audio>>
    \/ submitAnswer
    \/ nextQuestion
    \/ orphanTimerFires /\ narrateGhost /\ UNCHANGED audio
    \/ voiceschanged

\* The scripts these sessions start after: a wrong streak one short of 3,
\* the last clicked answer before the typed ones, and the last before the win
PlayScripts == { Script(1, 2, 0), Script(179, 0, 0), Script(199, 0, 0) }

InitPlay ==
    /\ \/ /\ \E d \in Difficulties : \E script \in PlayScripts : Awaiting(d, script)
          /\ Narrated
       \/ Start
    /\ answers = MaxAnswers - LateAnswers

SpecPlay ==
    /\ InitPlay
    /\ [][NextPlay]_vars
    /\ WF_vars(flushEffects /\ UNCHANGED <<speech, audio>>)
    /\ WF_vars(nextQuestion)

---------------------------------------------------------------------------
(* Properties *)

\* An answer is evaluated in this step
Evaluated == answers' = answers + 1

\* generateQuestion sets a Question in this step
Generated ==
    /\ currentQuestion' # NoQuestion
    /\ ~isAnswered'
    /\ isAnswered \/ currentQuestion = NoQuestion

\* The GameScreen stays mounted over this step, its mount effects done
SameScreen ==
    /\ gameState = "playing"
    /\ gameState' = "playing"
    /\ "difficulty" \notin pendingEffects

\* C1: every Question has answer = num1 * num2, the answer among its options,
\* and exactly 4 different options, all of them greater than 0.
QuestionWellFormed ==
    currentQuestion # NoQuestion =>
        /\ currentQuestion.answer = currentQuestion.num1 * currentQuestion.num2
        /\ currentQuestion.answer \in currentQuestion.options
        /\ Cardinality(currentQuestion.options) = 4
        /\ \A o \in currentQuestion.options : o \in Nat /\ o > 0

\* A Question was generated whose product is so small that the first
\* candidate of a distractor can be 0 or less
SmallProductGenerated ==
    /\ currentQuestion # NoQuestion
    /\ ~isAnswered
    /\ currentQuestion.answer <= 5

\* C2: the Question generated after another of the same session never has
\* the same pair of operands, in either order.
NoConsecutiveRepeat ==
    [][(Generated /\ currentQuestion # NoQuestion) =>
          ~ \/ /\ currentQuestion'.num1 = currentQuestion.num1
               /\ currentQuestion'.num2 = currentQuestion.num2
            \/ /\ currentQuestion'.num1 = currentQuestion.num2
               /\ currentQuestion'.num2 = currentQuestion.num1]_vars

\* A Question generated after an answer of the session it is in
SecondQuestionShown ==
    /\ gameState = "playing"
    /\ currentQuestion # NoQuestion
    /\ ~isAnswered
    /\ correctStreak > 0 \/ wrongStreak > 0
    /\ answers > MaxAnswers - LateAnswers

\* C3: the session is won if and only if the score is 1000 or more, once:
\* a step leads into Won only from Playing with such a score, a Playing
\* state with such a score has the win pending and no step but the one into
\* Won, and Won is left only by a reset.
WonIffThousand ==
    /\ [](gameState = "playing" /\ robuxScore >= WinScore
            => "win" \in pendingEffects)
    /\ [][/\ (gameState # "won" /\ gameState' = "won")
                => (gameState = "playing" /\ robuxScore >= WinScore)
          /\ (gameState = "playing" /\ robuxScore >= WinScore)
                => gameState' = "won"
          /\ gameState = "won"
                => gameState' \in {"won", "selecting_difficulty"}]_vars

\* The session is won
SessionWon == gameState = "won" /\ robuxScore >= WinScore

\* C4: when a correct answer has raised the score from below 800 to 800 or
\* more, the next Question generated has one operand of 6..9 and the other
\* of 6..12.
NextQuestionFromUpdatedScore ==
    [][(/\ Generated
        /\ isAnswered
        /\ correctStreak > 0
        /\ robuxScore >= OverrideScore
        /\ robuxScore - CorrectReward < OverrideScore)
          => \/ /\ currentQuestion'.num1 \in 6..9
                /\ currentQuestion'.num2 \in 6..12
             \/ /\ currentQuestion'.num2 \in 6..9
                /\ currentQuestion'.num1 \in 6..12]_vars

\* C5: a Question generated while the score is 100 or more has no operand 1.
NoOnesFromHundred ==
    [][(Generated /\ robuxScore >= NoOnesScore)
          => (currentQuestion'.num1 # 1 /\ currentQuestion'.num2 # 1)]_vars

\* C6: the score is never negative, and a wrong answer sets it to the
\* greater of 0 and the score less the penalty of the score before.
ScoreNeverNegative ==
    /\ [](robuxScore \in Nat)
    /\ [][(Evaluated /\ feedback' # {})
            => robuxScore' = (IF robuxScore >= getPenalty(robuxScore)
                              THEN robuxScore - getPenalty(robuxScore)
                              ELSE 0)]_vars

\* A wrong answer at score 1 has left the score at 0
ScoreClampedAtZero ==
    robuxScore = 0 /\ correctAnswersCount = 1 /\ wrongStreak = 3 /\ isAnswered

\* C7: the streaks are never both nonzero, an answer leaves exactly one of
\* them nonzero, and once one is nonzero one stays so while the session lasts.
OneStreakNonzero ==
    /\ [](~(correctStreak > 0 /\ wrongStreak > 0))
    /\ [](correctStreak \in Nat /\ wrongStreak \in Nat)
    /\ [][/\ Evaluated => (correctStreak' > 0) # (wrongStreak' > 0)
          /\ (SameScreen /\ (correctStreak > 0 \/ wrongStreak > 0))
                => (correctStreak' > 0 \/ wrongStreak' > 0)]_vars

\* A correct answer after wrong ones: the wrong streak is back to 0
StreakSwitched ==
    /\ gameState = "playing"
    /\ isAnswered
    /\ correctStreak = 1
    /\ wrongStreak = 0
    /\ correctAnswersCount = 2

\* C8: difficultyLevel is never negative; when wrongStreak has reached 3, 6,
\* 9, ... the decrement is pending and takes 1 from the level, down to 0 and
\* no further; no other step of a session changes the level.
LevelDropsOnThirdWrong ==
    /\ [](difficultyLevel \in Nat)
    /\ [][/\ (Evaluated /\ wrongStreak' > 0 /\ wrongStreak' % 3 = 0)
                => "wrongStreak" \in pendingEffects'
          /\ SameScreen
                => difficultyLevel' =
                     IF /\ "wrongStreak" \in pendingEffects
                        /\ wrongStreak > 0
                        /\ wrongStreak % 3 = 0
                     THEN (IF difficultyLevel > 0 THEN difficultyLevel - 1 ELSE 0)
                     ELSE difficultyLevel]_vars

\* Hard after its first three wrong answers in a row: the level is 4
HardDroppedToFour ==
    /\ gameState = "playing"
    /\ difficulty = "Hard"
    /\ wrongStreak = 3
    /\ difficultyLevel = 4
    /\ pendingEffects = {}

\* C9: a wrong answer takes 8 from a score of 930 or more, 5 from one of 800
\* or more, 4 from one of 700 or more and 2 from any other, not below 0;
\* it sets correctStreak to 0, adds 1 to wrongStreak, leaves
\* correctAnswersCount and records the value submitted as the feedback.
WrongAnswerOutcome ==
    [][(Evaluated /\ feedback' # {}) =>
          LET penalty == IF robuxScore >= 930 THEN 8
                         ELSE IF robuxScore >= 800 THEN 5
                         ELSE IF robuxScore >= 700 THEN 4
                         ELSE 2
          IN  /\ robuxScore' = (IF robuxScore >= penalty
                                THEN robuxScore - penalty ELSE 0)
              /\ correctStreak' = 0
              /\ wrongStreak' = wrongStreak + 1
              /\ correctAnswersCount' = correctAnswersCount
              /\ IF robuxScore >= TypedModeScore
                 THEN feedback' = {parseInt(typedAnswer)}
                 ELSE \E o \in currentQuestion.options \ {currentQuestion.answer} :
                          feedback' = {Number(o)}]_vars

\* A wrong answer at score 995 has left the score at 987
PenaltyEightApplied ==
    /\ robuxScore = 987
    /\ isAnswered
    /\ feedback # {}
    /\ wrongStreak = 1
    /\ correctAnswersCount = 199

\* C10: a correct answer, typed or clicked, adds 5 to the score, 1 to
\* correctStreak and 1 to correctAnswersCount and sets wrongStreak to 0.
CorrectAnswerOutcome ==
    [][(/\ Evaluated
        /\ IF robuxScore >= TypedModeScore
           THEN strictEquals(parseInt(typedAnswer), currentQuestion)
           ELSE feedback' = {})
          => /\ robuxScore' = robuxScore + 5
             /\ correctStreak' = correctStreak + 1
             /\ wrongStreak' = 0
             /\ correctAnswersCount' = correctAnswersCount + 1
             /\ feedback' = {}]_vars

\* The product was typed and submitted
TypedCorrectly ==
    /\ gameState = "playing"
    /\ isAnswered
    /\ feedback = {}
    /\ typedAnswer = DecimalOf(currentQuestion.answer)
    /\ robuxScore >= TypedModeScore + CorrectReward
    /\ correctStreak > 0

\* The closure generateQuestion is called with next: the one the pending
\* timeout captured, or the one of the current render
GeneratorClosure == IF timer.set THEN timer.closure ELSE CurrentClosure

\* C11: while a Question stays answered, no step (a further click or typed
\* submit among them) changes the score, the streaks, correctAnswersCount or
\* the feedback, or sets another timeout.
EvaluatedAtMostOnce ==
    [][(isAnswered /\ isAnswered' /\ gameState' = "playing")
          => UNCHANGED <<robuxScore, correctStreak, wrongStreak,
                         correctAnswersCount, feedback, timer>>]_vars

\* A submission for a Question already answered has returned early
SubmittedAgain ==
    /\ gameState = "playing"
    /\ isAnswered
    /\ ignored
    /\ timer.set

\* C12: gameState changes only from selecting_difficulty to playing, from
\* playing to won (the score being 1000 or more), from won to
\* selecting_difficulty, and from playing to selecting_difficulty.
SessionTransitions ==
    [][gameState' # gameState =>
          \/ gameState = "selecting_difficulty" /\ gameState' = "playing"
          \/ /\ gameState = "playing"
             /\ gameState' = "won"
             /\ robuxScore >= WinScore
          \/ gameState = "won" /\ gameState' = "selecting_difficulty"
          \/ gameState = "playing" /\ gameState' = "selecting_difficulty"]_vars

\* A reset has led back to the selection, a timeout of the session still
\* pending
BackAtSelection == gameState = "selecting_difficulty" /\ orphanTimers > 0

\* C13: a session whose first Question is not yet generated has score 0,
\* both streaks and correctAnswersCount 0, no lastQuestion, no Question, no
\* timeout of its own, and difficultyLevel 0 / 2 / 5 for Easy / Moderate /
\* Hard, whatever was played before.
NewSessionIsFresh ==
    (gameState = "playing" /\ showIntroMessage /\ pendingEffects = {}) =>
        /\ robuxScore = 0
        /\ correctStreak = 0
        /\ wrongStreak = 0
        /\ correctAnswersCount = 0
        /\ lastQuestion = NoPair
        /\ currentQuestion = NoQuestion
        /\ ~timer.set
        /\ difficultyLevel = (CASE difficulty = "Easy" -> 0
                                [] difficulty = "Moderate" -> 2
                                [] difficulty = "Hard" -> 5)

\* A Hard session started after a session was abandoned within the delay
\* of its last answer
FreshAfterAbandon ==
    /\ gameState = "playing"
    /\ showIntroMessage
    /\ pendingEffects = {}
    /\ difficulty = "Hard"
    /\ orphanTimers > 0

ProgressWithoutNarration ==
    [][(gameState = "playing" /\ ~isAnswered /\ isAnswered')
          => (Evaluated /\ timer'.set)]_vars

\* C17: the evaluation of an answer leaves currentQuestion and lastQuestion
\* and sets the timeout; the Question of a session changes only in the step
\* in which its timeout fires.
EvaluationKeepsQuestion ==
    [][/\ Evaluated
            => /\ currentQuestion' = currentQuestion
               /\ lastQuestion' = lastQuestion
               /\ timer'.set
       /\ (/\ gameState = "playing"
           /\ gameState' = "playing"
           /\ currentQuestion # NoQuestion
           /\ currentQuestion' # currentQuestion \/ lastQuestion' # lastQuestion)
            => (timer.set /\ ~timer'.set)]_vars

\* A wrong answer was evaluated and its Question is still the current one
AnsweredQuestionStays ==
    /\ gameState = "playing"
    /\ isAnswered
    /\ feedback # {}
    /\ timer.set
    /\ lastQuestion = Pair(currentQuestion.num1, currentQuestion.num2)

\* C18: a Question generated from a closure with a score of 800 or more has
\* one operand of 6..9 and the other of 6..12, on every tier.
OverrideFromEightHundred ==
    [][(Generated /\ GeneratorClosure.robuxScore >= OverrideScore)
          => \/ /\ currentQuestion'.num1 \in 6..9
                /\ currentQuestion'.num2 \in 6..12
             \/ /\ currentQuestion'.num2 \in 6..9
                /\ currentQuestion'.num1 \in 6..12]_vars

\* Easy at score 805, the Question generated from score 800 has an operand 12
OverrideOnEasy ==
    /\ difficulty = "Easy"
    /\ robuxScore = 805
    /\ currentQuestion # NoQuestion
    /\ ~isAnswered
    /\ currentQuestion.num1 = 12 \/ currentQuestion.num2 = 12

\* C19: a Question generated from a closure of tier Hard with a score below
\* 800 has both operands of 6..9.
HardBelowEightHundred ==
    [][(/\ Generated
        /\ GeneratorClosure.difficulty = "Hard"
        /\ GeneratorClosure.robuxScore < OverrideScore)
          => /\ currentQuestion'.num1 \in 6..9
             /\ currentQuestion'.num2 \in 6..9]_vars

\* Hard after more than 30 correct answers in a row, below 800: 9 x 6
HardNineTimesSix ==
    /\ difficulty = "Hard"
    /\ robuxScore < OverrideScore
    /\ correctStreak > 30
    /\ currentQuestion # NoQuestion
    /\ ~isAnswered
    /\ currentQuestion.num1 = 9
    /\ currentQuestion.num2 = 6

\* C20: a Question generated from a closure of tier Moderate with a score
\* below 800 has one operand of 4..7 and the other of 1..10, in either order.
ModerateBelowEightHundred ==
    [][(/\ Generated
        /\ GeneratorClosure.difficulty = "Moderate"
        /\ GeneratorClosure.robuxScore < OverrideScore)
          => \/ /\ currentQuestion'.num1 \in 4..7
                /\ currentQuestion'.num2 \in 1..10
             \/ /\ currentQuestion'.num2 \in 4..7
                /\ currentQuestion'.num1 \in 1..10]_vars

\* Moderate below 800, the operands swapped: 10 x 4
ModerateTenTimesFour ==
    /\ difficulty = "Moderate"
    /\ robuxScore < OverrideScore
    /\ currentQuestion # NoQuestion
    /\ ~isAnswered
    /\ currentQuestion.num1 = 10
    /\ currentQuestion.num2 = 4

\* generateQuestion is about to be called, by START GAME or by the timeout
AboutToGenerate ==
    /\ gameState = "playing"
    /\ timer.set \/ showIntroMessage

\* C21: a Question generated from a closure of tier Easy with a score below
\* 800 and fewer than 30 correct answers has one operand of 2..3 and the
\* other of 1..10, in either order; from 30 correct answers on the rule is
\* another one: it can draw a pair with no operand of 2..3.
IntroBelowThirty ==
    /\ [][(/\ Generated
           /\ GeneratorClosure.difficulty = "Easy"
           /\ GeneratorClosure.robuxScore < OverrideScore
           /\ GeneratorClosure.correctAnswersCount < IntroCorrectAnswers)
             => \/ /\ currentQuestion'.num1 \in 2..3
                   /\ currentQuestion'.num2 \in 1..10
                \/ /\ currentQuestion'.num2 \in 2..3
                   /\ currentQuestion'.num1 \in 1..10]_vars
    /\ []((/\ AboutToGenerate
           /\ GeneratorClosure.difficulty = "Easy"
           /\ GeneratorClosure.robuxScore < OverrideScore
           /\ GeneratorClosure.correctAnswersCount >= IntroCorrectAnswers)
             => \E p \in operandPairs(GeneratorClosure, Rnd) :
                    p.num1 \notin 2..3 /\ p.num2 \notin 2..3)

\* Easy, the 30th correct answer given: the Question generated from the
\* closure of 29 is 10 x 3
IntroTenTimesThree ==
    /\ difficulty = "Easy"
    /\ correctAnswersCount = 30
    /\ currentQuestion # NoQuestion
    /\ ~isAnswered
    /\ currentQuestion.num1 = 10
    /\ currentQuestion.num2 = 3

\* C22: with base 4, 7, 10 for Easy, Moderate, Hard and effectiveLevel =
\* difficultyLevel + floor(correctStreak / 3) + (2 from score 500), the
\* fallback rule draws num1 of 1..base + effectiveLevel and num2 of
\* 1..base + max(0, effectiveLevel - 2), but for num2 of 2..10 beside a
\* num1 of 1 when both draws were 1; it never draws (1, 1).  A Question the
\* rule generates on Easy keeps these bounds, an operand 1 replaced by 2..4
\* from score 100.
FallbackOperandBounds ==
    /\ [](AboutToGenerate =>
            \A d \in Difficulties :
                LET c == [GeneratorClosure EXCEPT !.difficulty = d]
                    base == CASE d = "Easy" -> 4
                              [] d = "Moderate" -> 7
                              [] OTHER -> 10
                    level == c.difficultyLevel + (c.correctStreak \div 3)
                                 + (IF c.robuxScore >= 500 THEN 2 ELSE 0)
                IN  \A p \in fallbackPairs(c, Rnd) :
                        /\ p # Pair(1, 1)
                        /\ \/ /\ p.num1 \in 1..(base + level)
                              /\ p.num2 \in 1..(base + Max(0, level - 2))
                           \/ /\ p.num1 = 1
                              /\ p.num2 \in 2..10)
    /\ [][(/\ Generated
           /\ GeneratorClosure.difficulty = "Easy"
           /\ GeneratorClosure.robuxScore < OverrideScore
           /\ GeneratorClosure.correctAnswersCount >= IntroCorrectAnswers)
             => LET c == GeneratorClosure
                    level == c.difficultyLevel + (c.correctStreak \div 3)
                                 + (IF c.robuxScore >= 500 THEN 2 ELSE 0)
                    q == currentQuestion'
                IN  /\ Pair(q.num1, q.num2) # Pair(1, 1)
                    /\ \/ /\ q.num1 \in 1..(4 + level)
                          /\ q.num2 \in 1..(4 + Max(0, level - 2))
                       \/ /\ q.num1 \in 1..4
                          /\ q.num2 \in 2..10]_vars

\* Easy after 30 correct and 26 wrong answers, level 0 and no streak: both
\* draws of the fallback rule were 1 and num2 was drawn again, as 10
FallbackRedrawn ==
    /\ difficulty = "Easy"
    /\ correctAnswersCount = 31
    /\ correctStreak = 1
    /\ currentQuestion # NoQuestion
    /\ ~isAnswered
    /\ currentQuestion.num1 = 1
    /\ currentQuestion.num2 = 10

\* C23: in every state of a session generateQuestion's closure leaves the
\* do-while a way out: the rule of the closure, the rule for a score of 100
\* or more applied, can draw a pair that is not lastQuestion in either
\* order, already with the draws a session samples.
GuardLoopCanExit ==
    gameState = "playing"
        => operandPairs(GeneratorClosure, Samples(RandRes)) # {}

\* Hard below 800, 6 x 6 answered: the rule can draw 6 x 6 again, and the
\* do-while has to draw once more then
GuardRejectsSixSix ==
    /\ difficulty = "Hard"
    /\ timer.set
    /\ timer.closure.robuxScore < OverrideScore
    /\ timer.closure.lastQuestion = Pair(6, 6)
    /\ Pair(6, 6) \in rulePairs(timer.closure, Samples(RandRes))

\* C29: the feedback is empty whenever a Question awaits its answer; it
\* names a value only while the Question is answered, and never the
\* product; a wrong answer records the value submitted, a correct answer
\* and every generateQuestion leave it empty.
FeedbackOnlyAfterWrongAnswer ==
    /\ []((gameState = "playing" /\ currentQuestion # NoQuestion /\ ~isAnswered)
             => feedback = {})
    /\ [](feedback # {}
             => /\ gameState = "playing"
                /\ isAnswered
                /\ Number(currentQuestion.answer) \notin feedback)
    /\ [][Generated => feedback' = {}]_vars
    /\ [][Evaluated =>
            IF correctStreak' = correctStreak + 1
            THEN feedback' = {}
            ELSE IF robuxScore >= TypedModeScore
            THEN feedback' = {parseInt(typedAnswer)}
            ELSE \E o \in currentQuestion.options \ {currentQuestion.answer} :
                     feedback' = {Number(o)}]_vars

\* The Question after a wrong answer awaits its answer, the feedback empty
FeedbackClearedByNextQuestion ==
    /\ gameState = "playing"
    /\ currentQuestion # NoQuestion
    /\ ~isAnswered
    /\ feedback = {}
    /\ wrongStreak > 0
    /\ answers > MaxAnswers - LateAnswers

\* C30: the score is of 0..1004 in every state and of 0..999 whenever a
\* Question awaits its answer; no answer is evaluated at a score of 1000 or
\* more.
ScoreRange ==
    /\ [](robuxScore \in 0..(WinScore + CorrectReward - 1))
    /\ []((gameState = "playing" /\ currentQuestion # NoQuestion /\ ~isAnswered)
             => robuxScore <= WinScore - 1)
    /\ [][Evaluated => robuxScore < WinScore]_vars

\* A correct answer at 999 has won the session with 1004
WonAtCeiling ==
    /\ gameState = "won"
    /\ robuxScore = WinScore + CorrectReward - 1

\* The fetch r ends in this step
Arrived(r) ==
    /\ r \in audio.inflight
    /\ \A x \in audio'.inflight : x.requestId # r.requestId

\* The audio of r is handed to playAudio in this step
Handed(r) ==
    \/ audio'.currentAudioSource = r
    \/ audio'.decoding = r

\* playAudio is not called in this step
NothingHanded ==
    /\ audio'.currentAudioSource = audio.currentAudioSource
    /\ audio'.decoding = audio.decoding

\* C26: when the audio fetched for a Question's narration arrives it is
\* handed to playAudio only if the token is the request's, which is so only
\* if no generateQuestion was called and no answer evaluated since the
\* request; audio that arrives with the token unchanged is handed over, and
\* any other arrival leaves the playback as it is.
QuestionAudioNeedsCurrentToken ==
    [][\A r \in audio.inflight :
          (r.kind = "question" /\ Arrived(r))
            => /\ Handed(r) => /\ audio.token = r.requestId
                               /\ ~r.generated
                               /\ ~r.answered
               /\ (audio.audioData # "null" /\ ~r.generated /\ ~r.answered)
                    => Handed(r)
               /\ Handed(r) \/ NothingHanded]_vars

\* The audio of the Question on the screen arrived before its answer
QuestionAudioHanded ==
    /\ audio.currentAudioSource.kind = "question"
    /\ audio.currentAudioSource.requestId = audio.token
    /\ currentQuestion # NoQuestion
    /\ ~isAnswered
    /\ answers > MaxAnswers - LateAnswers

\* C27: when the audio fetched for a compliment arrives it is handed to
\* playAudio if and only if no further answer has been evaluated since the
\* answer that requested it, which is so exactly when the token is at most
\* one past the request's.
ComplimentAudioToleratesOneStep ==
    [][\A r \in audio.inflight :
          (r.kind = "compliment" /\ Arrived(r) /\ audio.audioData # "null")
            => /\ Handed(r) <=> ~r.answered
               /\ ~r.answered <=> audio.token <= r.requestId + 1
               /\ Handed(r) \/ NothingHanded]_vars

\* The audio of a compliment arrived after the next Question was generated
ComplimentHandedAfterNextQuestion ==
    /\ audio.currentAudioSource.kind = "compliment"
    /\ audio.currentAudioSource.generated
    /\ audio.token = audio.currentAudioSource.requestId + 1
    /\ ~isAnswered

\* The utterances speak() was called with or will be called with
Requested(s) == s.spoken \cup ({s.waiting} \ {NoUtterance})

\* C24: while the Question on the screen is answered, its narration is not
\* playing: the utterance of its text is not among those handed to
\* speak(), and the audio fetched for it is not the current source.
NarrationStoppedByAnswer ==
    (gameState = "playing" /\ isAnswered)
        => /\ \A u \in speech.spoken :
                 ~(/\ u.kind = "question"
                   /\ ~u.stale
                   /\ u.num1 = currentQuestion.num1
                   /\ u.num2 = currentQuestion.num2)
           /\ ~(/\ audio.currentAudioSource.kind = "question"
                /\ ~audio.currentAudioSource.generated)

\* The narration of Questions generated before the latest one is neither
\* handed to speak() nor waiting to be
NoStaleUtterance ==
    \A u \in Requested(speech) : u.kind = "question" => ~u.stale

\* C25: no narration of a Question generated before the latest one is
\* playing or waits to play: not as an utterance, and not as the current
\* audio source.
NewQuestionSupersedesNarration ==
    /\ NoStaleUtterance
    /\ audio.currentAudioSource.kind = "question"
          => ~audio.currentAudioSource.generated

\* C28: the compliment of a correct answer is of HIGH_SCORE_COMPLIMENTS if
\* the score with the 5 added is 950 or more, and of COMPLIMENTS otherwise.
ComplimentPoolFromNewScore ==
    [][(Evaluated /\ correctStreak' = correctStreak + 1)
          => \E u \in Requested(speech') :
                /\ u.kind = "compliment"
                /\ \E i \in 1..9 :
                      IF robuxScore' >= NearWinScore
                      THEN i <= Len(HIGH_SCORE_COMPLIMENTS)
                           /\ u.phrase = HIGH_SCORE_COMPLIMENTS[i]
                      ELSE i <= Len(COMPLIMENTS) /\ u.phrase = COMPLIMENTS[i]]_vars

\* C31: whenever generateQuestion is about to be called and its closure
\* selects the fallback rule, the closure is of tier Easy with 30 or more
\* correct answers, a score below 800 and difficultyLevel 0; and for every
\* tier the pairs it can draw are those it could draw had difficultyLevel
\* never been decremented.
FallbackOnlyOnEasy ==
    AboutToGenerate =>
        LET c == GeneratorClosure
        IN  /\ ruleOf(c) = "fallback"
                 => /\ c.difficulty = "Easy"
                    /\ c.correctAnswersCount >= IntroCorrectAnswers
                    /\ c.robuxScore < OverrideScore
                    /\ c.difficultyLevel = 0
            /\ operandPairs(c, Samples(RandRes))
                 = operandPairs([c EXCEPT !.difficultyLevel =
                                               initialLevel(c.difficulty)],
                                Samples(RandRes))

\* Easy with more than 30 correct answers: the fallback rule generated
\* 8 x 7, which the introductory rule cannot draw
FallbackEightTimesSeven ==
    /\ difficulty = "Easy"
    /\ correctAnswersCount > IntroCorrectAnswers
    /\ robuxScore < OverrideScore
    /\ currentQuestion # NoQuestion
    /\ ~isAnswered
    /\ currentQuestion.num1 = 8
    /\ currentQuestion.num2 = 7
    /\ answers > MaxAnswers - LateAnswers

\* C32: while no session is won, the score is at most 5 times
\* correctAnswersCount and correctStreak is at most correctAnswersCount; a
\* session becomes won only with 200 or more correct answers counted.
ScoreBoundedByCorrectAnswers ==
    /\ [](gameState # "won"
             => /\ robuxScore <= CorrectReward * correctAnswersCount
                /\ correctStreak <= correctAnswersCount)
    /\ [][(gameState = "playing" /\ gameState' = "won")
             => /\ correctAnswersCount * CorrectReward >= WinScore
                /\ correctAnswersCount >= 200]_vars

\* The 202nd correct answer of a session with three wrong ones has raised
\* the score to 1004, the win effect not yet flushed
WinningAnswerGiven ==
    /\ gameState = "playing"
    /\ "win" \in pendingEffects
    /\ robuxScore = WinScore + CorrectReward - 1
    /\ correctAnswersCount = 202

\* C33: the session of a player who gives the product every time, every
\* timeout firing, is won in the end.
CorrectPlayerWins == <>(gameState = "won")

\* The same in a browser that has speechSynthesis
CorrectPlayerWinsWithSpeech == speechSupported => <>(gameState = "won")

\* C34: an evaluated answer leaves the Question answered with its timeout
\* pending; from there, the player not resetting, the session is won or the
\* timeout fires and another Question awaits its answer, with other
\* operands than the answered one.
AnswerLeadsToNextQuestion ==
    /\ [][Evaluated => /\ gameState' = "playing"
                       /\ isAnswered'
                       /\ timer'.set]_vars
    /\ [][(timer.set /\ ~timer'.set /\ gameState' = "playing")
             => /\ currentQuestion' # NoQuestion
                /\ Pair(currentQuestion'.num1, currentQuestion'.num2)
                     # Pair(currentQuestion.num1, currentQuestion.num2)]_vars
    /\ timer.set ~> \/ gameState = "won"
                    \/ /\ gameState = "playing"
                       /\ currentQuestion # NoQuestion
                       /\ ~isAnswered
                       /\ ~timer.set

\* The Question after the last answer of the run awaits its answer
QuestionAfterLastAnswer ==
    /\ gameState = "playing"
    /\ answers = MaxAnswers
    /\ currentQuestion # NoQuestion
    /\ ~isAnswered
    /\ ~timer.set
    /\ pendingEffects = {}

\* C35: the step of a timeout whose GameScreen is gone, by a win or a reset,
\* changes nothing of the quiz: not the score, the streaks,
\* correctAnswersCount, difficultyLevel, lastQuestion, the Question, the
\* answered flag, the feedback, the typed text, nor the timeout of the
\* GameScreen mounted then.
OrphanTimerChangesNothing ==
    [][orphanTimers' < orphanTimers
          => UNCHANGED <<gameState, difficulty, robuxScore, correctStreak,
                         wrongStreak, correctAnswersCount, difficultyLevel,
                         lastQuestion, currentQuestion, isAnswered, feedback,
                         typedAnswer, showIntroMessage, timer>>]_vars

\* The timeout of an abandoned session has fired while the Question of a
\* later session was answered: its narration was handed to speak(), and the
\* later session still has its answered Question and its own timeout
OrphanFiredInLaterSession ==
    /\ gameState = "playing"
    /\ currentQuestion # NoQuestion
    /\ isAnswered
    /\ timer.set
    /\ orphanTimers = 0
    /\ GhostUtterance \in speech.spoken

\* The values a pass of the while loop can add for the pair p while the set
\* has `size` members: every draw of the offset, both sides of each coin and
\* the three values of Math.ceil
candidates(p, size) ==
    { wrongAnswerOf(p.num1, p.num2, size, o, m, g, h) :
        o \in Rnd, m \in Samples(OptDraws), g \in Samples(OptDraws),
        h \in Samples(OptDraws) }

\* C36: for every pair of operands generateQuestion can draw, and every
\* size of the set of options the while loop runs with, each value a pass
\* can add is positive and is not the answer, and the passes can add three
\* or more distinct values: whatever the set holds, a pass can add a new
\* member, so that the loop ends under fair draws.
DistractorLoopCanEnd ==
    AboutToGenerate =>
        \A p \in operandPairs(GeneratorClosure, Rnd) :
            \A size \in 1..3 :
                /\ \A x \in candidates(p, size) :
                      x > 0 /\ x # p.num1 * p.num2
                /\ Cardinality(candidates(p, size)) >= 3

\* The loop has ended for 1 x 2, where five of the ten offsets give a first
\* candidate of 0 or less
OneTimesTwoGenerated ==
    /\ currentQuestion # NoQuestion
    /\ ~isAnswered
    /\ currentQuestion.num1 = 1
    /\ currentQuestion.num2 = 2
    /\ Cardinality(currentQuestion.options) = 4

\* C37: at most one source is playing in every state, and it is the one
\* currentAudioSource refers to; a source that starts is the only one
\* playing in the state it starts in.
AtMostOneSourcePlaying ==
    /\ [](/\ Cardinality(audio.playing) <= 1
          /\ audio.playing \subseteq {audio.currentAudioSource})
    /\ [][\A r \in audio'.playing \ audio.playing : audio'.playing = {r}]_vars

\* The source of the first call plays while the second call, made before
\* the first one's source started, is at its await
SourcePlaysBesidePendingCall ==
    /\ audio.playing = {Request("question", 1)}
    /\ Request("question", 2) \in audio.decoding

=============================================================================
